---- MODULE Spec2Model ----
(***************************************************************************)
(* Model of evgen::ActiveVolumeVertexSampler (larsim, MARLEY generator):   *)
(* construction, reconfigure, the seeder callback registered with the seed *)
(* service, and sample_vertex_pos.                                         *)
(*                                                                         *)
(* Reals are modelled on an integer grid.  The 64-bit Mersenne twister is  *)
(* abstracted to a full-period congruential generator with EngMod states;  *)
(* one engine output e stands for the canonical value e / EngMod in [0,1). *)
(* The standard-library distributions are modelled by what libstdc++ and   *)
(* libc++ compute, including what they do when a precondition is violated  *)
(* (the variable build selects the library and whether its precondition    *)
(* assertions are compiled in).                                            *)
(***************************************************************************)
EXTENDS Integers, Sequences, FiniteSets, TLC

VARIABLES
  geom,        \* the geometry (cell catalog) handed to every call
  build,       \* standard library the program was built against
  proc,        \* "running", or "aborted" once a library assertion failed
  inst,        \* inst[i]: the fields of sampler object i
  fTPCEngine,  \* fTPCEngine[k]: engine storage slot k
  hist,        \* hist[i]: operations invoked on object i, in order
  calls,       \* calls[i]: one record per sample_vertex_pos call that ended
  last         \* the latest operation, with the object's state before it

vars == <<geom, build, proc, inst, fTPCEngine, hist, calls, last>>

-----------------------------------------------------------------------------
(* Bounds of the exploration *)

\* operations invoked on one sampler object after its construction
MaxOps == 3

Instances == {1, 2}

-----------------------------------------------------------------------------
(* Inputs *)

Cell(x0, x1, y0, y1, z0, z1, m) ==
  [minX |-> x0, maxX |-> x1, minY |-> y0, maxY |-> y1,
   minZ |-> z0, maxZ |-> z1, mass |-> m]

\* two cells of active mass 1 and 3; the z extent is degenerate
CatTwo == << Cell(0, 2, 0, 1, 3, 3, 1), Cell(10, 12, 0, 1, 3, 3, 3) >>
\* two cells without active mass
CatZero == << Cell(0, 2, 0, 1, 3, 3, 0), Cell(10, 12, 0, 1, 3, 3, 0) >>
\* a single cell without active mass
CatOneZero == << Cell(0, 2, 0, 1, 3, 3, 0) >>
\* no cell at all
CatEmpty == << >>

Catalogs == {CatTwo, CatZero, CatOneZero, CatEmpty}

Builds == {"libstdcxx", "libcxx", "libstdcxx_assert"}

Seeds == {0, 42}

\* a configuration: fhicl parameters type, position, time_type, T0, SigmaT
Conf(type, time_type, SigmaT) ==
  [type |-> type, position |-> <<1, 2, 3>>, time_type |-> time_type,
   T0 |-> 5, SigmaT |-> SigmaT]

\* the accepted configurations, with a positive, a zero (the default) and
\* a negative SigmaT, and one rejected configuration of each kind
Configs ==
  { Conf("sampled", "uniform", 1), Conf("sampled", "gaussian", 1),
    Conf("fixed", "uniform", 0), Conf("fixed", "uniform", -1),
    Conf("fixed", "gaussian", 0),
    Conf("sampled", "exponential", 0), Conf("fixed", "exponential", 0),
    Conf("box", "uniform", 0) }

\* configurations of the two-object specification
DetConfigs ==
  { Conf("sampled", "gaussian", 1), Conf("fixed", "uniform", 1),
    Conf("sampled", "exponential", 0) }

NoConf ==
  [type |-> "none", position |-> <<0, 0, 0>>, time_type |-> "none",
   T0 |-> 0, SigmaT |-> 0]

Null == [weights |-> << >>, built |-> FALSE]

-----------------------------------------------------------------------------
(* The random engine *)

EngMod == 2 ^ 4

\* one step of the generator; the output is the new state
Step(st) == (5 * st + 3) % EngMod

\* a default-constructed engine (default seed 5489), never seeded explicitly
DefaultEngine == [st |-> 5489 % EngMod, nseed |-> 0]

\* std::seed_seq{seed}: the seed (a 32-bit seed_t widened to 64 bits) is
\* mixed, never used as the raw state
SeedSeq(seed) == (7 * seed + 11) % EngMod

\* fTPCEngine.seed(seed_sequence)
SeedEngine(eng, seed) == [st |-> SeedSeq(seed), nseed |-> eng.nseed + 1]

\* one call of the engine
Gen(eng) == [eng EXCEPT !.st = Step(eng.st)]

\* one engine shared by all sampler objects (a static engine)
EngineSlot_Shared(i) == 1

\* a sampler object keeps its engine in a slot of its own
EngineSlot(i) == i


-----------------------------------------------------------------------------
(* The standard-library distributions.  A draw yields the engine after    *)
(* the draw, the value, and whether a library assertion stopped the       *)
(* process.                                                               *)

Sign(n) == IF n > 0 THEN 1 ELSE IF n < 0 THEN -1 ELSE 0

\* std::uniform_real_distribution<double> on the range (a, b): one engine
\* call, a + (b - a) * canonical.  a > b violates the precondition: the
\* assertion build stops, the other builds evaluate the same formula.
UniformReal(a, b, eng, bld) ==
  IF bld = "libstdcxx_assert" /\ a > b
  THEN [eng |-> eng, val |-> 0, abort |-> TRUE]
  ELSE LET e == Gen(eng)
       IN [eng |-> e, val |-> a + (((b - a) * e.st) \div EngMod),
           abort |-> FALSE]

\* The polar method of std::normal_distribution: pairs of engine calls
\* until the point (x, y) lies in the unit disc and is not its centre.
RECURSIVE Polar(_, _)
Polar(eng, fuel) ==
  LET e1 == Gen(eng)
      e2 == Gen(e1)
      x == 2 * e1.st - EngMod
      y == 2 * e2.st - EngMod
      r2 == x * x + y * y
  IN IF (r2 > EngMod * EngMod \/ r2 = 0) /\ fuel > 0
     THEN Polar(e2, fuel - 1)
     ELSE [eng |-> e2, x |-> x, y |-> y]

\* std::normal_distribution<double>(mean, stddev), a fresh object per call.
\* The deviate is kept by its sign only.  stddev <= 0 violates the
\* precondition: the assertion build stops, the other builds compute
\* deviate * stddev + mean.
NormalDraw(mean, stddev, eng, bld) ==
  IF bld = "libstdcxx_assert" /\ stddev <= 0
  THEN [eng |-> eng, val |-> 0, abort |-> TRUE]
  ELSE LET p == Polar(eng, EngMod)
           dev == IF bld = "libcxx" THEN Sign(p.x) ELSE Sign(p.y)
       IN [eng |-> p.eng, val |-> dev * stddev + mean, abort |-> FALSE]

RECURSIVE SumTo(_, _)
SumTo(w, k) == IF k = 0 THEN 0 ELSE w[k] + SumTo(w, k - 1)

Masses(g) == [k \in 1..Len(g) |-> g[k].mass]

\* new std::discrete_distribution<size_t>(first, last): fewer than two
\* weights give the certain index 0 without a look at them; a weight sum
\* of zero violates the precondition and stops the assertion build.
DiscreteBuild(w, bld) ==
  [dist |-> [weights |-> w, built |-> TRUE],
   abort |-> bld = "libstdcxx_assert" /\ Len(w) >= 2 /\ SumTo(w, Len(w)) = 0]

\* fTPCDist->operator()(fTPCEngine).  libstdc++ returns 0 without an engine
\* call when there are fewer than two weights and otherwise searches the
\* cumulative probabilities with lower_bound; libc++ always calls the
\* engine and searches with upper_bound.  With a zero weight sum the
\* probabilities are NaN and every comparison with them is false.
DiscreteDraw(dist, eng, bld) ==
  LET w == dist.weights
      n == Len(w)
      sum == SumTo(w, n)
  IN IF n < 2
     THEN [eng |-> IF bld = "libcxx" THEN Gen(eng) ELSE eng, val |-> 0]
     ELSE LET e == Gen(eng)
              Hit(k) == IF bld = "libcxx"
                        THEN e.st * sum < SumTo(w, k + 1) * EngMod
                        ELSE SumTo(w, k + 1) * EngMod >= e.st * sum
              cand == { k \in 0..(n - 1) : k = n - 1 \/ Hit(k) }
          IN [eng |-> e,
              val |-> CHOOSE k \in cand : \A j \in cand : k <= j]

-----------------------------------------------------------------------------
(* The sampler object *)

\* the object as the constructor's member initialisers leave it.  life
\* ("none", "alive", or "failed" once the constructor threw) and cfg (the
\* configuration last accepted) are bookkeeping, not members.
InitListState ==
  [life |-> "none",
   fVertexPosition |-> <<0, 0, 0, 0>>,
   fVertexType |-> "kSampled",
   fTimeType |-> "uninit",
   fT0 |-> 0,
   fSigmaT |-> 0,
   fTPCDist |-> Null,
   cfg |-> NoConf]

\* an unknown vertex type falls back to the sampled mode before the throw
ReconfVertex_Fallback(s, conf, d) ==
  IF conf.type = "sampled"
  THEN [s |-> [s EXCEPT !.fVertexType = "kSampled", !.fTPCDist = d.dist],
        outcome |-> IF d.abort THEN "abort" ELSE "ok"]
  ELSE IF conf.type = "fixed"
  THEN [s |-> [s EXCEPT !.fVertexType = "kFixed",
                        !.fVertexPosition =
                           <<conf.position[1], conf.position[1],
                             conf.position[1], 0>>],
        outcome |-> "ok"]
  ELSE [s |-> [s EXCEPT !.fVertexType = "kSampled"], outcome |-> "throw"]

\* reconfigure, the vertex type: d is the distribution built from the
\* active masses of the geometry
ReconfVertex(s, conf, d) ==
  IF conf.type = "sampled"
  THEN [s |-> [s EXCEPT !.fVertexType = "kSampled", !.fTPCDist = d.dist],
        outcome |-> IF d.abort THEN "abort" ELSE "ok"]
  ELSE IF conf.type = "fixed"
  THEN [s |-> [s EXCEPT !.fVertexType = "kFixed",
                        !.fVertexPosition =
                           <<conf.position[1], conf.position[1],
                             conf.position[1], 0>>],
        outcome |-> "ok"]
  ELSE [s |-> s, outcome |-> "throw"]

\* reconfigure, the time type, T0 and SigmaT: v is what the vertex type
\* part left
ReconfTime(v, conf) ==
  IF v.outcome # "ok" THEN v
  ELSE IF conf.time_type \in {"uniform", "gaussian"}
  THEN [s |-> [v.s EXCEPT
                 !.fTimeType = IF conf.time_type = "uniform"
                               THEN "kUniform" ELSE "kGaussian",
                 !.fT0 = conf.T0,
                 !.fSigmaT = conf.SigmaT,
                 !.cfg = conf],
        outcome |-> "ok"]
  ELSE [s |-> v.s, outcome |-> "throw"]

\* reconfigure(conf, geom): the new fields and how the call ended
Reconfigure(s, conf, g, bld) ==
  ReconfTime(ReconfVertex(s, conf, DiscreteBuild(Masses(g), bld)), conf)

Draw(kind, from, to) == [kind |-> kind, from |-> from, to |-> to]

\* the position 4-vector is set from the three draws
PosSet(s, eng, d, x, y, z) ==
  [outcome |-> IF x.abort \/ y.abort \/ z.abort THEN "abort" ELSE "ok",
   s |-> [s EXCEPT !.fVertexPosition = <<x.val, y.val, z.val, 0>>],
   eng |-> z.eng,
   tpc |-> d.val,
   log |-> << Draw("tpc", eng, d.eng), Draw("x", d.eng, x.eng),
              Draw("y", x.eng, y.eng), Draw("z", y.eng, z.eng) >>]

PosZ(s, eng, d, tpc, x, y, bld) ==
  PosSet(s, eng, d, x, y, UniformReal(tpc.minZ, tpc.maxZ, y.eng, bld))

PosY(s, eng, d, tpc, x, bld) ==
  PosZ(s, eng, d, tpc, x, UniformReal(tpc.minY, tpc.maxY, x.eng, bld), bld)

\* d is the draw of the TPC index; geom.TPC(tpc_index) throws when the
\* geometry has no such TPC
PosX(s, eng, d, g, bld) ==
  IF d.val >= Len(g)
  THEN [outcome |-> "throw", s |-> s, eng |-> d.eng, tpc |-> d.val,
        log |-> << Draw("tpc", eng, d.eng) >>]
  ELSE PosY(s, eng, d, g[d.val + 1],
            UniformReal(g[d.val + 1].minX, g[d.val + 1].maxX, d.eng, bld),
            bld)

\* the kSampled branch of sample_vertex_pos; the branch is skipped for a
\* fixed vertex.  Without a distribution the dereference ends the process.
SamplePosition(s, eng, g, bld) ==
  IF s.fVertexType # "kSampled"
  THEN [outcome |-> "ok", s |-> s, eng |-> eng, tpc |-> -1, log |-> << >>]
  ELSE IF ~s.fTPCDist.built
  THEN [outcome |-> "abort", s |-> s, eng |-> eng, tpc |-> -1, log |-> << >>]
  ELSE PosX(s, eng, DiscreteDraw(s.fTPCDist, eng, bld), g, bld)

\* the vertex time of sample_vertex_pos
SampleTime(s, eng, bld) ==
  IF s.fTimeType = "kGaussian"
  THEN NormalDraw(s.fT0, s.fSigmaT, eng, bld)
  ELSE UniformReal(s.fT0 - s.fSigmaT, s.fT0 + s.fSigmaT, eng, bld)

\* fVertexPosition.SetT(t) and the return: p is what the position part
\* left, t the draw of the time
SetT(p, t) ==
  IF t.abort THEN [p EXCEPT !.outcome = "abort"]
  ELSE [outcome |-> "return",
        s |-> [p.s EXCEPT !.fVertexPosition[4] = t.val],
        eng |-> t.eng,
        tpc |-> p.tpc,
        log |-> Append(p.log, Draw("t", p.eng, t.eng))]

TimeAfter(p, bld) ==
  IF p.outcome # "ok" THEN p ELSE SetT(p, SampleTime(p.s, p.eng, bld))

\* the time is drawn before the position
Prepend(e, sq) == << e >> \o sq

TimeFirstSet(p, eng, t) ==
  IF p.outcome # "ok" THEN [p EXCEPT !.log = Prepend(Draw("t", eng, t.eng), @)]
  ELSE [outcome |-> "return",
        s |-> [p.s EXCEPT !.fVertexPosition[4] = t.val],
        eng |-> p.eng,
        tpc |-> p.tpc,
        log |-> Prepend(Draw("t", eng, t.eng), p.log)]

TimeFirst(s, eng, t, g, bld) ==
  IF t.abort
  THEN [outcome |-> "abort", s |-> s, eng |-> eng, tpc |-> -1, log |-> << >>]
  ELSE TimeFirstSet(SamplePosition(s, t.eng, g, bld), eng, t)

SampleVertexPos_TimeFirst(s, eng, g, bld) ==
  TimeFirst(s, eng, SampleTime(s, eng, bld), g, bld)

\* the engine is seeded anew at every call
SampleVertexPos_Reseed(s, eng, g, bld) ==
  TimeAfter(SamplePosition(s, SeedEngine(eng, 0), g, bld), bld)

\* sample_vertex_pos(geom): the new fields, the engine after the call, how
\* the call ended, the TPC index drawn (-1: none) and the draws made
SampleVertexPos(s, eng, g, bld) ==
  TimeAfter(SamplePosition(s, eng, g, bld), bld)

-----------------------------------------------------------------------------
(* State and operations *)

Op(op, seed, conf) == [op |-> op, seed |-> seed, conf |-> conf]

Latest(op, i, conf, outcome, pre) ==
  [op |-> op, inst |-> i, conf |-> conf, outcome |-> outcome, pre |-> pre]

Init ==
  /\ geom \in Catalogs
  /\ build \in Builds
  /\ proc = "running"
  /\ inst = [i \in Instances |-> InitListState]
  /\ fTPCEngine = [k \in Instances |-> DefaultEngine]
  /\ hist = [i \in Instances |-> << >>]
  /\ calls = [i \in Instances |-> << >>]
  /\ last = Latest("init", 0, NoConf, "ok", InitListState)

\* a library assertion failed: the process is gone
Abort(op, i, conf) ==
  /\ proc' = "aborted"
  /\ last' = Latest(op, i, conf, "abort", inst[i])
  /\ UNCHANGED <<geom, build, inst, fTPCEngine, hist, calls>>

\* the constructor once its reconfigure call ended as r: a throw leaves no
\* object behind, otherwise the seeder callback is registered and the
\* engine (slot k) is seeded with the seed the service returned
Constructed(i, k, seed, conf, r) ==
  IF r.outcome = "abort" THEN Abort("construct", i, conf)
  ELSE /\ inst' = [inst EXCEPT ![i] =
                     IF r.outcome = "ok"
                     THEN [r.s EXCEPT !.life = "alive"]
                     ELSE [InitListState EXCEPT !.life = "failed"]]
       /\ fTPCEngine' =
            IF r.outcome = "ok"
            THEN [fTPCEngine EXCEPT ![k] = SeedEngine(fTPCEngine[k], seed)]
            ELSE fTPCEngine
       /\ hist' = [hist EXCEPT ![i] = Append(@, Op("construct", seed, conf))]
       /\ last' = Latest("construct", i, conf, r.outcome, inst[i])
       /\ UNCHANGED <<geom, build, proc, calls>>

\* ActiveVolumeVertexSampler(conf, rand_service, geom, generator_name)
Construct(i, seed, conf) ==
  /\ proc = "running"
  /\ inst[i].life = "none"
  /\ Constructed(i, EngineSlot(i), seed, conf,
                 Reconfigure(InitListState, conf, geom, build))

Reconfigured(i, conf, r) ==
  IF r.outcome = "abort" THEN Abort("reconfigure", i, conf)
  ELSE /\ inst' = [inst EXCEPT ![i] = r.s]
       /\ hist' = [hist EXCEPT ![i] = Append(@, Op("reconfigure", 0, conf))]
       /\ last' = Latest("reconfigure", i, conf, r.outcome, inst[i])
       /\ UNCHANGED <<geom, build, proc, fTPCEngine, calls>>

\* reconfigure(conf, geom) on a constructed object
ReconfigureCall(i, conf) ==
  /\ proc = "running"
  /\ inst[i].life = "alive"
  /\ Len(hist[i]) <= MaxOps
  /\ Reconfigured(i, conf, Reconfigure(inst[i], conf, geom, build))

Reseeded(i, k, lar_seed) ==
  /\ fTPCEngine' = [fTPCEngine EXCEPT ![k] = SeedEngine(fTPCEngine[k], lar_seed)]
  /\ hist' = [hist EXCEPT ![i] = Append(@, Op("seeder", lar_seed, NoConf))]
  /\ last' = Latest("seeder", i, NoConf, "ok", inst[i])
  /\ UNCHANGED <<geom, build, proc, inst, calls>>

\* the callback registered with the seed service, invoked with lar_seed
SeederCallback(i, lar_seed) ==
  /\ proc = "running"
  /\ inst[i].life = "alive"
  /\ Len(hist[i]) <= MaxOps
  /\ Reseeded(i, EngineSlot(i), lar_seed)

\* what is kept of one sample_vertex_pos call
CallRecord(s, eng, r) ==
  [outcome |-> r.outcome,
   v |-> r.s.fVertexPosition,
   tpc |-> r.tpc,
   ncells |-> Len(s.fTPCDist.weights),
   vtype |-> s.fVertexType,
   ttype |-> s.fTimeType,
   T0 |-> s.fT0,
   SigmaT |-> s.fSigmaT,
   cfg |-> s.cfg,
   log |-> r.log,
   engFrom |-> eng,
   engTo |-> r.eng]

Sampled(i, k, r) ==
  IF r.outcome = "abort" THEN Abort("sample", i, NoConf)
  ELSE /\ inst' = [inst EXCEPT ![i] = r.s]
       /\ fTPCEngine' = [fTPCEngine EXCEPT ![k] = r.eng]
       /\ calls' = [calls EXCEPT ![i] =
                      Append(@, CallRecord(inst[i], fTPCEngine[k], r))]
       /\ hist' = [hist EXCEPT ![i] = Append(@, Op("sample", 0, NoConf))]
       /\ last' = Latest("sample", i, NoConf, r.outcome, inst[i])
       /\ UNCHANGED <<geom, build, proc>>

\* sample_vertex_pos(geom) on a constructed object (MarleyGen::produce)
SampleCall(i) ==
  /\ proc = "running"
  /\ inst[i].life = "alive"
  /\ Len(hist[i]) <= MaxOps
  /\ Sampled(i, EngineSlot(i),
             SampleVertexPos(inst[i], fTPCEngine[EngineSlot(i)], geom, build))

\* One sampler object, every configuration
Next ==
  \/ \E seed \in Seeds, conf \in Configs : Construct(1, seed, conf)
  \/ \E conf \in Configs : ReconfigureCall(1, conf)
  \/ \E lar_seed \in Seeds : SeederCallback(1, lar_seed)
  \/ SampleCall(1)

Spec == Init /\ [][Next]_vars

\* Two sampler objects in one process.  Object 1 is driven freely; object 2
\* is driven through the operations object 1 has been through, in the same
\* order and at any later moment, so that every pair of equal histories is
\* reached under every interleaving in which object 2 does not lead.
Follows(i, o) ==
  \/ i = 1
  \/ /\ i = 2
     /\ Len(hist[2]) < Len(hist[1])
     /\ hist[1][Len(hist[2]) + 1] = o

NextDet ==
  \E i \in Instances :
    \/ \E seed \in Seeds, conf \in DetConfigs :
         Follows(i, Op("construct", seed, conf)) /\ Construct(i, seed, conf)
    \/ \E conf \in DetConfigs :
         Follows(i, Op("reconfigure", 0, conf)) /\ ReconfigureCall(i, conf)
    \/ \E lar_seed \in Seeds :
         Follows(i, Op("seeder", lar_seed, NoConf)) /\ SeederCallback(i, lar_seed)
    \/ Follows(i, Op("sample", 0, NoConf)) /\ SampleCall(i)

SpecDet == Init /\ [][NextDet]_vars

-----------------------------------------------------------------------------
(* Properties *)

\* the calls made on object i
CallsOf(i) == { calls[i][j] : j \in DOMAIN calls[i] }

AllCalls == UNION { CallsOf(i) : i \in Instances }

Kinds(log) == [k \in DOMAIN log |-> log[k].kind]

\* the sampler state a caller can observe
SamplerState(s) ==
  <<s.fVertexType, s.fVertexPosition, s.fTPCDist, s.fTimeType, s.fT0, s.fSigmaT>>

\* C1: in Fixed mode every sample_vertex_pos call returns the position
\* (px, py, pz) of the configuration last accepted, component by component.
C1_FixedReturnsConfiguredPosition ==
  \A c \in AllCalls :
    (c.cfg.type = "fixed" /\ c.outcome = "return")
      => <<c.v[1], c.v[2], c.v[3]>> = c.cfg.position

\* C2: a reconfigure call with an unrecognized time_type raises an error and
\* leaves vertex mode, cached position, cell distribution, time mode, T0
\* and SigmaT as they were before the call.
C2_RejectedTimeTypeKeepsState ==
  (last.op = "reconfigure" /\ last.conf.time_type \notin {"uniform", "gaussian"})
    => /\ last.outcome = "throw"
       /\ SamplerState(inst[last.inst]) = SamplerState(last.pre)

\* C3: a sampler is never configured in Sampled mode with a cell catalog
\* whose total active mass is zero (no cell, or zero weights only).
C3_ZeroMassNeverConfigured ==
  \A i \in Instances :
    (inst[i].life = "alive" /\ inst[i].fVertexType = "kSampled")
      => SumTo(inst[i].fTPCDist.weights, Len(inst[i].fTPCDist.weights)) > 0

\* C4: in every configured state SigmaT >= 0, and no sample_vertex_pos call
\* draws a time with a negative spread.
C4_SigmaTNeverNegative ==
  /\ \A i \in Instances : inst[i].life = "alive" => inst[i].fSigmaT >= 0
  /\ \A c \in AllCalls : c.SigmaT >= 0

\* C5: in Sampled mode every call selects a cell index i with
\* 0 <= i < number of cells loaded at the last reconfigure and returns a
\* position within the bounds of that cell.
C5_SampledCellAndBounds ==
  \A c \in AllCalls :
    c.vtype = "kSampled"
      => /\ 0 <= c.tpc
         /\ c.tpc < c.ncells
         /\ c.outcome = "return"
         /\ geom[c.tpc + 1].minX <= c.v[1] /\ c.v[1] <= geom[c.tpc + 1].maxX
         /\ geom[c.tpc + 1].minY <= c.v[2] /\ c.v[2] <= geom[c.tpc + 1].maxY
         /\ geom[c.tpc + 1].minZ <= c.v[3] /\ c.v[3] <= geom[c.tpc + 1].maxZ

\* C6: in Uniform time mode the returned time lies in
\* [T0 - SigmaT, T0 + SigmaT]; with SigmaT = 0 it equals T0.
C6_UniformTimeInRange ==
  \A c \in AllCalls :
    (c.ttype = "kUniform" /\ c.outcome = "return")
      => /\ c.T0 - c.SigmaT <= c.v[4]
         /\ c.v[4] <= c.T0 + c.SigmaT

\* the time a call in the state of call c draws from engine state eng
TimeFrom(c, eng) ==
  IF c.ttype = "kGaussian"
  THEN NormalDraw(c.T0, c.SigmaT, eng, build).val
  ELSE UniformReal(c.T0 - c.SigmaT, c.T0 + c.SigmaT, eng, build).val

\* the draws of a call follow one another on the engine, from the engine
\* state the call found to the one it left
Contiguous(c) ==
  /\ c.log # << >>
  /\ c.log[1].from = c.engFrom
  /\ c.log[Len(c.log)].to = c.engTo
  /\ \A k \in 1..(Len(c.log) - 1) : c.log[k].to = c.log[k + 1].from

\* C7: within each sample_vertex_pos call the draws from the engine occur in
\* a fixed order.  A call that returns in Sampled mode has drawn the cell
\* index, then x, then y, then z, then the time, each value from the engine
\* state the previous draw left; a call that returns in Fixed mode has
\* drawn the time only; a call that ends in an exception has drawn a
\* prefix of that order.
C7_DrawOrder ==
  \A c \in AllCalls :
    /\ Contiguous(c)
    /\ (c.outcome = "return" /\ c.vtype = "kSampled")
         => /\ Kinds(c.log) = <<"tpc", "x", "y", "z", "t">>
            /\ c.v[1] = UniformReal(geom[c.tpc + 1].minX, geom[c.tpc + 1].maxX,
                                    c.log[2].from, build).val
            /\ c.v[2] = UniformReal(geom[c.tpc + 1].minY, geom[c.tpc + 1].maxY,
                                    c.log[3].from, build).val
            /\ c.v[3] = UniformReal(geom[c.tpc + 1].minZ, geom[c.tpc + 1].maxZ,
                                    c.log[4].from, build).val
            /\ c.v[4] = TimeFrom(c, c.log[5].from)
    /\ (c.outcome = "return" /\ c.vtype = "kFixed")
         => /\ Kinds(c.log) = <<"t">>
            /\ c.v[4] = TimeFrom(c, c.engFrom)
    /\ c.outcome # "return"
         => (c.vtype = "kSampled" /\ Kinds(c.log) = <<"tpc">>)

\* a returned call in Sampled mode and a returned call in Fixed mode on the
\* same object
C7_Witness ==
  \E i \in Instances : \E c1, c2 \in CallsOf(i) :
    /\ c1.outcome = "return" /\ c1.vtype = "kSampled"
    /\ c2.outcome = "return" /\ c2.vtype = "kFixed"

Output(c) == [outcome |-> c.outcome, v |-> c.v]

\* C9: two sampler objects constructed with the same seed, cell catalog and
\* configuration and taken through the same operations give the same
\* outputs: call for call, the second returns what the first returned.
C9_Determinism ==
  (\A k \in DOMAIN hist[2] : k \in DOMAIN hist[1] /\ hist[1][k] = hist[2][k])
    => \A j \in DOMAIN calls[2] :
         /\ j \in DOMAIN calls[1]
         /\ Output(calls[2][j]) = Output(calls[1][j])

\* two objects with the same history, each with two returned calls in
\* Sampled mode
C9_Witness ==
  /\ hist[1] = hist[2]
  /\ Len(calls[1]) >= 2
  /\ Len(calls[2]) >= 2
  /\ \A i \in Instances : \A c \in CallsOf(i) :
       c.outcome = "return" /\ c.vtype = "kSampled"

\* C10: whenever the vertex mode of a constructed sampler is Sampled, the
\* cell distribution has been built, whatever reconfigure calls (throwing
\* ones included) and sample_vertex_pos calls came before.
C10_SampledHasDistribution ==
  \A i \in Instances :
    (inst[i].life = "alive" /\ inst[i].fVertexType = "kSampled")
      => inst[i].fTPCDist.built

\* an object constructed in Fixed mode is in Sampled mode after a
\* reconfigure call that threw on the time type
C10_Witness ==
  /\ inst[1].life = "alive"
  /\ hist[1][1].conf.type = "fixed"
  /\ last.op = "reconfigure"
  /\ last.outcome = "throw"
  /\ last.conf.type = "sampled"
  /\ inst[1].fVertexType = "kSampled"

=============================================================================
